---- MODULE Spec2Model ----
(***************************************************************************)
(* Model of babeldoc/document_il/midend/il_translator.py: the placeholder  *)
(* factory, the translate-input builder, the output reparser, the          *)
(* per-paragraph pipeline and the priority scheduler that drives it.       *)
(*                                                                         *)
(* Text is a sequence of one-character strings.  A regular expression the  *)
(* code builds with re.escape(token) is modelled by what it matches: the   *)
(* token, letter by letter, case-folded when the code passes               *)
(* re.IGNORECASE and exactly when it does not.                             *)
(***************************************************************************)
EXTENDS Integers, Sequences, FiniteSets, TLC

VARIABLES
    fn, arg, ret,   \* a function applied on its own: its name, arguments, result
    config,         \* translation_config and the engine's capability
    doc,            \* the document as given: its pages and paragraphs
    paragraphs,     \* the paragraph objects, which the tasks mutate
    shared,         \* shared_context_cross_split_part
    main,           \* where the thread running translate() is
    task,           \* the paragraph tasks submitted to the executor
    cancelled,      \* whether raise_if_cancelled() raises
    pbar,           \* the stage's progress: total and advances
    tracker         \* the page trackers' paragraph trackers

pvars == <<fn, arg, ret>>

mvars == <<config, doc, paragraphs, shared, main, task, cancelled, pbar, tracker>>

vars == <<fn, arg, ret, config, doc, paragraphs, shared, main, task, cancelled,
          pbar, tracker>>

----------------------------------------------------------------------------
(* Bounds of the model *)

\* ids 1..TabIds take their tokens from the provider's table
TabIds == 2
\* depth at which the interpreter's recursion limit ends a recursion
RecursionLimit == 5
\* a paragraph text of the factory runs is made of at most this many pieces
MaxTextPieces == 2
\* a translated text of the reparser runs is made of at most this many pieces
MaxOutPieces == 4
\* a paragraph of the builder runs has at most this many styled runs in a row
MaxRuns == 42
\* the configured requests per second are 1..MaxQps
MaxQps == 1

----------------------------------------------------------------------------
(* Text *)

Lower(c) ==
    CASE c = "A" -> "a" [] c = "B" -> "b" [] c = "E" -> "e"
      [] c = "V" -> "v" [] c = "X" -> "x" [] OTHER -> c

Upper(c) ==
    CASE c = "a" -> "A" [] c = "b" -> "B" [] c = "e" -> "E"
      [] c = "v" -> "V" [] c = "x" -> "X" [] OTHER -> c

LowerStr(s) == [i \in 1..Len(s) |-> Lower(s[i])]

UpperStr(s) == [i \in 1..Len(s) |-> Upper(s[i])]

\* s[a:b] of Python, 0-based, half open
Slice(s, a, b) == SubSeq(s, a + 1, b)

\* re.match(re.escape(tok), s[pos:]) : tok is at 0-based offset pos of s
MatchAtCS(tok, s, pos) ==
    /\ pos + Len(tok) <= Len(s)
    /\ Slice(s, pos, pos + Len(tok)) = tok

\* the same under re.IGNORECASE
MatchAtIC(tok, s, pos) ==
    /\ pos + Len(tok) <= Len(s)
    /\ LowerStr(Slice(s, pos, pos + Len(tok))) = LowerStr(tok)

\* Python's  tok in s
IsSubstr(tok, s) == \E pos \in 0..Len(s) : MatchAtCS(tok, s, pos)

\* the same, case-folded: re.search(re.escape(tok), s, re.IGNORECASE)
IsSubstrIC(tok, s) == \E pos \in 0..Len(s) : MatchAtIC(tok, s, pos)

RECURSIVE Concat(_)
Concat(ss) == IF ss = <<>> THEN <<>> ELSE Head(ss) \o Concat(Tail(ss))

RECURSIVE Strs(_, _)
\* the texts made of at most n pieces
Strs(pieces, n) ==
    IF n = 0 THEN {<<>>}
    ELSE LET shorter == Strs(pieces, n - 1) IN
         shorter \cup {s \o p : s \in shorter, p \in pieces}

RECURSIVE RemoveSpaces(_)
\* str.replace(" ", "")
RemoveSpaces(s) ==
    IF s = <<>> THEN <<>>
    ELSE IF Head(s) = " " THEN RemoveSpaces(Tail(s))
         ELSE <<Head(s)>> \o RemoveSpaces(Tail(s))

Digit(d) == <<"0", "1", "2", "3", "4", "5", "6", "7", "8", "9">>[d + 1]

RECURSIVE Digits(_)
\* str(n) for n >= 0
Digits(n) == IF n < 10 THEN <<Digit(n)>> ELSE Digits(n \div 10) \o <<Digit(n % 10)>>

----------------------------------------------------------------------------
(* The translate engine's token providers (external collaborators).  A     *)
(* provider is a record of three tables over 1..TabIds and a rule for the  *)
(* ids past the table: "std" numbers the token with the id, "last" keeps   *)
(* returning the table's last token.  Every provider returns a bare token, *)
(* so each token's pattern is re.escape(token).                            *)

ProviderToken(tab, rule, letter, id) ==
    IF id \in DOMAIN tab THEN tab[id]
    ELSE IF rule = "last" THEN tab[Len(tab)]
    ELSE <<letter>> \o Digits(id)

get_formular_placeholder(prov, id) == ProviderToken(prov.f, prov.rule, "v", id)

get_rich_text_left_placeholder(prov, id) == ProviderToken(prov.l, prov.rule, "b", id)

get_rich_text_right_placeholder(prov, id) == ProviderToken(prov.r, prov.rule, "e", id)

\* the provider that numbers every token with its id
StdProvider ==
    [f |-> [i \in 1..TabIds |-> <<"v">> \o Digits(i)],
     l |-> [i \in 1..TabIds |-> <<"b">> \o Digits(i)],
     r |-> [i \in 1..TabIds |-> <<"e">> \o Digits(i)],
     rule |-> "std"]

----------------------------------------------------------------------------
(* Placeholder factory *)

\* None
NoValue == [type |-> "none"]

\* no translation run is going on
NoRun ==
    /\ config = NoValue
    /\ doc = NoValue
    /\ paragraphs = <<>>
    /\ shared = NoValue
    /\ main = NoValue
    /\ task = <<>>
    /\ cancelled = FALSE
    /\ pbar = NoValue
    /\ tracker = <<>>

RaiseRecursion == [type |-> "raise", error |-> "RecursionError"]

FormulaPlaceholder(id, formula, placeholder) ==
    [type |-> "formula", id |-> id, obj |-> formula,
     placeholder |-> placeholder, left |-> <<>>, right |-> <<>>]

RichTextPlaceholder(id, composition, left, right) ==
    [type |-> "rich", id |-> id, obj |-> composition,
     placeholder |-> <<>>, left |-> left, right |-> right]

\* the id create_formula_placeholder retries with on a collision
FormulaRetryId(formula_id) == formula_id + 1

\* mutant: a collision is retried with the id before
RichTextRetryDown(composition_id) == composition_id - 1

\* the id create_rich_text_placeholder retries with on a collision
RichTextRetryId(composition_id) == composition_id + 1

RECURSIVE CreateFormulaFrom(_, _, _, _, _)
CreateFormulaFrom(prov, formula, formula_id, unicode, depth) ==
    LET placeholder == get_formular_placeholder(prov, formula_id) IN
    IF depth > RecursionLimit THEN RaiseRecursion
    ELSE IF IsSubstr(placeholder, unicode)
         THEN CreateFormulaFrom(prov, formula, FormulaRetryId(formula_id),
                                unicode, depth + 1)
         ELSE FormulaPlaceholder(formula_id, formula, placeholder)

create_formula_placeholder(prov, formula, formula_id, unicode) ==
    CreateFormulaFrom(prov, formula, formula_id, unicode, 1)

\* mutant: only the left token is tested against the text
RichTextCollidesLeftOnly(left_placeholder, right_placeholder, unicode) ==
    IsSubstr(left_placeholder, unicode)

\* the collision test of create_rich_text_placeholder
RichTextCollides(left_placeholder, right_placeholder, unicode) ==
    IsSubstr(left_placeholder, unicode) \/ IsSubstr(right_placeholder, unicode)

RECURSIVE CreateRichTextFrom(_, _, _, _, _)
CreateRichTextFrom(prov, composition, composition_id, unicode, depth) ==
    LET left_placeholder == get_rich_text_left_placeholder(prov, composition_id)
        right_placeholder == get_rich_text_right_placeholder(prov, composition_id)
    IN
    IF depth > RecursionLimit THEN RaiseRecursion
    ELSE IF RichTextCollides(left_placeholder, right_placeholder, unicode)
         THEN CreateRichTextFrom(prov, composition, RichTextRetryId(composition_id),
                                 unicode, depth + 1)
         ELSE RichTextPlaceholder(composition_id, composition,
                                  left_placeholder, right_placeholder)

create_rich_text_placeholder(prov, composition, composition_id, unicode) ==
    CreateRichTextFrom(prov, composition, composition_id, unicode, 1)

----------------------------------------------------------------------------
(* Document objects.  An object (line, formula, styled run, translated     *)
(* run) is a record; oid names the object, so that "the same object" is    *)
(* the same oid, and an object made by the translator has oid 0.  A        *)
(* PdfParagraphComposition is a record of the one field it has set (kind)  *)
(* and the object in it (ref).                                             *)

Object(chars, unicode, style, oid) ==
    [chars |-> chars, unicode |-> unicode, style |-> style, oid |-> oid]

Composition(kind, ref) == [kind |-> kind, ref |-> ref]

\* PdfStyle: the font, the size (in tenths) and the other visual attributes
Style(font_id, size, other) == [font_id |-> font_id, size |-> size, other |-> other]

\* a pdf_style of None
NoStyle == Style("none", 0, "none")

BaseStyle == Style("F1", 100, "plain")

BoldStyle == Style("F1", 100, "bold")

\* PdfSameStyleUnicodeCharacters() with its unicode and pdf_style set
UnicodeComposition(unicode, style) ==
    Composition("ssuc", Object(<<>>, unicode, style, 0))

TranslateInput(unicode, placeholders, base_style) ==
    [type |-> "input", unicode |-> unicode, placeholders |-> placeholders,
     base_style |-> base_style]

----------------------------------------------------------------------------
(* Style comparator (babeldoc.document_il.utils.layout_helper) and font    *)
(* mapper: their code is not among the sources; they are modelled from     *)
(* the specification's section 4.1 and 4.3.                                *)

is_same_style(a, b) == a = b

is_same_style_except_font(a, b) == a.size = b.size /\ a.other = b.other

\* sizes whose ratio is within [0.7, 1.3] count as equal
is_same_style_except_size(a, b) ==
    /\ a.font_id = b.font_id
    /\ a.other = b.other
    /\ 7 * b.size <= 10 * a.size
    /\ 10 * a.size <= 13 * b.size

\* font_mapper.map(font, "1").font_id, "none" when it maps to no font
MappedFontId(font) == font.maps_to

\* get_char_unicode_string: the characters' text, joined
get_char_unicode_string(chars) == chars

----------------------------------------------------------------------------
(* Translate-input builder *)

\* the placeholder count past which rich text is given up
PlaceholderLimit == 40

Paragraph(unicode, comps, style, vertical, layout_label, xobj_id, debug_id) ==
    [unicode |-> unicode, comps |-> comps, style |-> style, vertical |-> vertical,
     layout_label |-> layout_label, xobj_id |-> xobj_id, debug_id |-> debug_id]

\* what the builder returns (an input, nothing, or an exception) and how
\* many times it went through the composition list
Built(value, passes) == [type |-> "built", value |-> value, passes |-> passes]

RaiseError(error) == [type |-> "raise", error |-> error]

\* mutant: only a run in the base style goes without a placeholder
NoPlaceholderSameStyleOnly(style, base, page_font_map) == is_same_style(style, base)

\* the test that lets a styled run go without a placeholder
NoPlaceholderNeeded(style, base, page_font_map) ==
    LET fonta == MappedFontId(page_font_map[style.font_id])
        fontb == MappedFontId(page_font_map[base.font_id])
    IN \/ is_same_style(style, base)
       \/ is_same_style_except_size(style, base)
       \/ /\ is_same_style_except_font(style, base)
          /\ fonta # "none"
          /\ fontb # "none"
          /\ fonta = fontb

\* mutant: the circuit breaker never trips
BreakerNever(placeholders, disable_rich_text_translate) == FALSE

\* the circuit breaker's test, made after a composition is processed
BreakerTrips(placeholders, disable_rich_text_translate) ==
    Len(placeholders) > PlaceholderLimit /\ ~disable_rich_text_translate

\* The state of the loop over paragraph.pdf_paragraph_composition: the next
\* composition i, the loop's variables, and out, the value returned once
\* the loop has ended (NoValue while it runs is told apart by done).
LoopState(i, disable, placeholder_id, placeholders, chars, passes) ==
    [done |-> FALSE, i |-> i, disable |-> disable, placeholder_id |-> placeholder_id,
     placeholders |-> placeholders, chars |-> chars, passes |-> passes, out |-> NoValue]

Return(s, value) == [s EXCEPT !.done = TRUE, !.out = value]

\* the end of the loop body: the circuit breaker (a trip starts the
\* recursive call with rich text disabled), then the next composition
EndOfBody(s, next_id, placeholders, chars) ==
    IF BreakerTrips(placeholders, s.disable)
    THEN LoopState(1, TRUE, 1, <<>>, <<>>, s.passes + 1)
    ELSE [s EXCEPT !.i = s.i + 1, !.placeholder_id = next_id,
                   !.placeholders = placeholders, !.chars = chars]

\* a continue statement: the next composition, the circuit breaker skipped
ContinueLoop(s, chars) == [s EXCEPT !.i = s.i + 1, !.chars = chars]

\* one turn of the loop
BuildStep(prov, paragraph, page_font_map, s) ==
    LET composition == paragraph.comps[s.i]
        obj == composition.ref
    IN
    IF s.i > Len(paragraph.comps)
    THEN Return(s, TranslateInput(get_char_unicode_string(s.chars), s.placeholders,
                                  paragraph.style))
    ELSE IF composition.kind = "line"
    THEN EndOfBody(s, s.placeholder_id, s.placeholders, s.chars \o obj.chars)
    ELSE IF composition.kind = "formula"
    THEN LET fp == create_formula_placeholder(prov, obj, s.placeholder_id,
                                              paragraph.unicode)
         IN IF fp.type = "raise" THEN Return(s, fp)
            ELSE EndOfBody(s, fp.id + 1, Append(s.placeholders, fp),
                           s.chars \o fp.placeholder)
    ELSE IF composition.kind = "char"
    THEN EndOfBody(s, s.placeholder_id, s.placeholders, s.chars \o obj.chars)
    ELSE IF composition.kind = "ssc"
    THEN IF s.disable THEN ContinueLoop(s, s.chars \o obj.chars)
         ELSE IF obj.style.font_id \notin DOMAIN page_font_map
                 \/ paragraph.style.font_id \notin DOMAIN page_font_map
         THEN Return(s, RaiseError("KeyError"))
         ELSE IF NoPlaceholderNeeded(obj.style, paragraph.style, page_font_map)
         THEN ContinueLoop(s, s.chars \o obj.chars)
         ELSE LET rp == create_rich_text_placeholder(prov, obj, s.placeholder_id,
                                                     paragraph.unicode)
              IN IF rp.type = "raise" THEN Return(s, rp)
                 ELSE EndOfBody(s, rp.id + 2, Append(s.placeholders, rp),
                                s.chars \o rp.left \o obj.chars \o rp.right)
    ELSE Return(s, NoValue)

RECURSIVE BuildLoop(_, _, _, _)
BuildLoop(prov, paragraph, page_font_map, s) ==
    IF s.done THEN Built(s.out, s.passes)
    ELSE CHOOSE built \in {BuildLoop(prov, paragraph, page_font_map, next) :
                              next \in {BuildStep(prov, paragraph, page_font_map, s)}} :
             TRUE

get_translate_input(prov, paragraph, page_font_map, disable_rich_text_translate) ==
    IF paragraph.comps = <<>> THEN Built(NoValue, 0)
    ELSE IF Len(paragraph.comps) = 1
    THEN IF paragraph.comps[1].kind \in {"line", "ssc", "char"}
         THEN Built(TranslateInput(paragraph.unicode, <<>>, paragraph.style), 0)
         ELSE Built(NoValue, 0)
    ELSE BuildLoop(prov, paragraph, page_font_map,
                   LoopState(1, disable_rich_text_translate, 1, <<>>, <<>>, 1))

----------------------------------------------------------------------------
(* Output reparser *)

Min(S) == CHOOSE x \in S : \A y \in S : x <= y

\* mutant: a rich-text pattern runs to the last right token
CaptureEndGreedy(p, output, pos) ==
    IF p.type = "formula"
    THEN IF MatchAtIC(p.placeholder, output, pos)
         THEN pos + Len(p.placeholder) ELSE -1
    ELSE IF MatchAtIC(p.left, output, pos)
         THEN LET ends == {j \in (pos + Len(p.left))..Len(output) :
                              MatchAtIC(p.right, output, j)}
              IN IF ends = {} THEN -1
                 ELSE (CHOOSE j \in ends : \A l \in ends : l <= j) + Len(p.right)
         ELSE -1

\* Where a match of the placeholder's capture pattern that starts at pos
\* ends, -1 when there is none: the token itself for a formula, and
\* left .*? right for a rich text, which ends at the first right token
\* after the left one.  Both are matched with re.IGNORECASE.
CaptureEnd(p, output, pos) ==
    IF p.type = "formula"
    THEN IF MatchAtIC(p.placeholder, output, pos)
         THEN pos + Len(p.placeholder) ELSE -1
    ELSE IF MatchAtIC(p.left, output, pos)
         THEN LET ends == {j \in (pos + Len(p.left))..Len(output) :
                              MatchAtIC(p.right, output, j)}
              IN IF ends = {} THEN -1 ELSE Min(ends) + Len(p.right)
         ELSE -1

\* re.search(pattern, output, flags=re.IGNORECASE) for one capture pattern
CaptureFound(p, output) == \E pos \in 0..Len(output) : CaptureEnd(p, output, pos) >= 0

\* all_match of parse_translate_output
AllMatch(placeholders, output) ==
    \A k \in 1..Len(placeholders) : CaptureFound(placeholders[k], output)

RECURSIVE NextMatch(_, _, _)
\* The next match of the combined pattern at or after pos: the alternatives
\* are tried in the placeholders' order at each position.
NextMatch(placeholders, output, pos) ==
    IF pos >= Len(output) THEN [found |-> FALSE, start |-> 0, end |-> 0, alt |-> 0]
    ELSE LET alts == {k \in 1..Len(placeholders) :
                         CaptureEnd(placeholders[k], output, pos) >= 0}
         IN IF alts = {} THEN NextMatch(placeholders, output, pos + 1)
            ELSE [found |-> TRUE, start |-> pos,
                  end |-> CaptureEnd(placeholders[Min(alts)], output, pos),
                  alt |-> Min(alts)]

RECURSIVE StripTokens(_)
\* placeholder_patterns: a formula's token, a rich text's left and right token
StripTokens(placeholders) ==
    IF placeholders = <<>> THEN <<>>
    ELSE LET p == Head(placeholders) IN
         (IF p.type = "formula" THEN <<p.placeholder>> ELSE <<p.left, p.right>>)
         \o StripTokens(Tail(placeholders))

RECURSIVE StripFrom(_, _, _)
StripFrom(tokens, text, pos) ==
    IF pos >= Len(text) THEN <<>>
    ELSE LET hits == {k \in 1..Len(tokens) : MatchAtIC(tokens[k], text, pos)} IN
         IF hits = {} THEN <<text[pos + 1]>> \o StripFrom(tokens, text, pos + 1)
         ELSE StripFrom(tokens, text, pos + Len(tokens[Min(hits)]))

\* re.sub(combined_placeholder_pattern, "", text, flags=re.IGNORECASE)
remove_placeholder(placeholders, text) == StripFrom(StripTokens(placeholders), text, 0)

\* What the reparser appends to result, with where it came from: the slice
\* [from, to) of the output and the placeholder (0: none) it was read as.
Emission(comp, from, to, ph) == [comp |-> comp, from |-> from, to |-> to, ph |-> ph]

\* the composition for a stretch of plain text
TextComposition(input_text, text) ==
    UnicodeComposition(remove_placeholder(input_text.placeholders, text),
                       input_text.base_style)

\* mutant: the text after the last match is dropped
TrailingTextDropped(input_text, output, last_end) == <<>>

\* the text after the last match
TrailingText(input_text, output, last_end) ==
    IF last_end < Len(output)
    THEN <<Emission(TextComposition(input_text, Slice(output, last_end, Len(output))),
                    last_end, Len(output), 0)>>
    ELSE <<>>

\* the text between the previous match and this one
LeadingText(input_text, output, last_end, start) ==
    IF start > last_end
    THEN <<Emission(TextComposition(input_text, Slice(output, last_end, start)),
                    last_end, start, 0)>>
    ELSE <<>>

\* the formula placeholders whose token is the matched text
FormulaHits(placeholders, matched_text) ==
    {k \in 1..Len(placeholders) :
        placeholders[k].type = "formula" /\ matched_text = placeholders[k].placeholder}

\* the rich-text placeholders whose left pattern matches the start of the
\* matched text (re.match without re.IGNORECASE)
RichTextHits(placeholders, matched_text) ==
    {k \in 1..Len(placeholders) :
        placeholders[k].type # "formula" /\ MatchAtCS(placeholders[k].left, matched_text, 0)}

\* re.match(f"^{left}(.*){right}$", matched_text) matches
InnerMatches(p, matched_text) ==
    /\ Len(matched_text) >= Len(p.left) + Len(p.right)
    /\ MatchAtCS(p.left, matched_text, 0)
    /\ MatchAtCS(p.right, matched_text, Len(matched_text) - Len(p.right))

\* its group(1)
InnerText(p, matched_text) ==
    Slice(matched_text, Len(p.left), Len(matched_text) - Len(p.right))

\* the run came back unchanged, spaces aside
SameAsOriginal(p, text) == RemoveSpaces(text) = RemoveSpaces(p.obj.chars)

\* the composition for a rich-text match with inner text `text`
RichTextComposition(placeholders, p, text) ==
    IF SameAsOriginal(p, text)
    THEN Composition("ssc", p.obj)
    ELSE UnicodeComposition(remove_placeholder(placeholders, text), p.obj.style)

Parsed(result, full_match) ==
    [type |-> "parsed", result |-> result, full_match |-> full_match, error |-> "none"]

ParseRaised(error, full_match) ==
    [type |-> "raise", result |-> <<>>, full_match |-> full_match, error |-> error]

RECURSIVE ParseLoop(_, _, _, _, _)

\* the body of the loop for the match m, whose text is matched_text, the
\* text before it already emitted into result: a formula placeholder is
\* found by comparing its token with the matched text, a rich-text one by
\* matching its left pattern at the start of the matched text
ParseMatch(input_text, output, result, full_match, m, matched_text) ==
    LET placeholders == input_text.placeholders
        formulas == FormulaHits(placeholders, matched_text)
        riches == RichTextHits(placeholders, matched_text)
    IN
    IF formulas # {}
    THEN ParseLoop(input_text, output, m.end,
                   Append(result, Emission(Composition("formula",
                                                       placeholders[Min(formulas)].obj),
                                           m.start, m.end, Min(formulas))),
                   full_match)
    ELSE IF riches = {}
    THEN ParseRaised("StopIteration", full_match)
    ELSE IF ~InnerMatches(placeholders[Min(riches)], matched_text)
    THEN ParseRaised("AttributeError", full_match)
    ELSE ParseLoop(input_text, output, m.end,
                   Append(result, Emission(
                       RichTextComposition(placeholders, placeholders[Min(riches)],
                                           InnerText(placeholders[Min(riches)],
                                                     matched_text)),
                       m.start, m.end, Min(riches))),
                   full_match)

\* one round of the loop, m being the next match from last_end on, and the
\* end of the loop when there is none
ParseNext(input_text, output, last_end, result, full_match, m) ==
    IF ~m.found
    THEN Parsed(result \o TrailingText(input_text, output, last_end), full_match)
    ELSE ParseMatch(input_text, output,
                    result \o LeadingText(input_text, output, last_end, m.start),
                    full_match, m, Slice(output, m.start, m.end))

\* the loop over re.finditer(combined_pattern, output, flags=re.IGNORECASE)
ParseLoop(input_text, output, last_end, result, full_match) ==
    CHOOSE parsed \in
        {ParseNext(input_text, output, last_end, result, full_match, m) :
            m \in {NextMatch(input_text.placeholders, output, last_end)}} : TRUE

parse_translate_output(input_text, output) ==
    IF input_text.placeholders = <<>>
    THEN Parsed(<<Emission(UnicodeComposition(output, input_text.base_style),
                           0, Len(output), 0)>>, TRUE)
    ELSE ParseLoop(input_text, output, 0, <<>>,
                   AllMatch(input_text.placeholders, output))

----------------------------------------------------------------------------
(* Translation tracker *)

\* an attribute that holds a text (NoValue: the attribute is not set)
Text(s) == [type |-> "text", text |-> s]

\* LLMTranslateTracker()
LLMTranslateTracker ==
    [input |-> Text(<<>>), output |-> Text(<<>>), placeholder_full_match |-> FALSE]

\* ParagraphTranslateTracker()
ParagraphTranslateTracker ==
    [pdf_unicode |-> NoValue, input |-> NoValue, output |-> NoValue,
     llm_translate_trackers |-> <<>>]

\* tracker.new_llm_translate_tracker()
new_llm_translate_tracker(trk) ==
    [trk EXCEPT !.llm_translate_trackers = Append(@, LLMTranslateTracker)]

\* set_placeholder_full_match() on tracker.last_llm_translate_tracker(), if any
MarkFullMatch(trk) ==
    IF trk.llm_translate_trackers = <<>> THEN trk
    ELSE [trk EXCEPT !.llm_translate_trackers[Len(trk.llm_translate_trackers)]
                          .placeholder_full_match = TRUE]

\* set_input(llm_prompt) on the attempt tracker just made
SetAttemptInput(trk, prompt) ==
    [trk EXCEPT !.llm_translate_trackers[Len(trk.llm_translate_trackers)].input = prompt]

\* set_output(translated_text) on it
SetAttemptOutput(trk, text) ==
    [trk EXCEPT !.llm_translate_trackers[Len(trk.llm_translate_trackers)].output
                    = Text(text)]

----------------------------------------------------------------------------
(* Paragraph translation pipeline *)

\* the run length from which the returned text's spacing runs are collapsed
NormalizeRun == 20

\* the class of the pattern: full stop, space, U+3002, U+2026, U+FF0C (one
\* string per character)
SpacingChars == {".", " ", "u3002", "u2026", "uFF0C"}

RECURSIVE RunLength(_, _)
\* how many characters of the class follow each other from offset pos
RunLength(s, pos) ==
    IF pos < Len(s) /\ s[pos + 1] \in SpacingChars THEN 1 + RunLength(s, pos + 1) ELSE 0

RECURSIVE NormalizeFrom(_, _)
NormalizeFrom(s, pos) ==
    IF pos >= Len(s) THEN <<>>
    ELSE IF RunLength(s, pos) >= NormalizeRun
         THEN <<".">> \o NormalizeFrom(s, pos + RunLength(s, pos))
         ELSE <<s[pos + 1]>> \o NormalizeFrom(s, pos + 1)

\* re.sub of every run of NormalizeRun or more characters of the class by "."
Normalize(s) == NormalizeFrom(s, 0)

\* the configured translation_config.min_text_length
MinTextLength == 2

\* the font map a paragraph's fonts are looked up in
FontMapFor(paragraph, page_font_map, xobj_font_map) ==
    IF paragraph.xobj_id \in DOMAIN xobj_font_map
    THEN xobj_font_map[paragraph.xobj_id] ELSE page_font_map

\* mutant: a text of any length is translated
PreparedAnyLength(cfg, trk, translate_input) ==
    IF translate_input.type = "raise"
    THEN [type |-> "raise", tracker |-> trk, translate_input |-> NoValue]
    ELSE IF translate_input.type = "none"
    THEN [type |-> "skip", tracker |-> trk, translate_input |-> NoValue]
    ELSE [type |-> "go",
          tracker |-> [trk EXCEPT !.input = Text(translate_input.unicode)],
          translate_input |-> translate_input]

\* the end of pre_translate_paragraph, translate_input being what the
\* builder returned or raised
Prepared(cfg, trk, translate_input) ==
    IF translate_input.type = "raise"
    THEN [type |-> "raise", tracker |-> trk, translate_input |-> NoValue]
    ELSE IF translate_input.type = "none"
    THEN [type |-> "skip", tracker |-> trk, translate_input |-> NoValue]
    ELSE [type |-> IF Len(translate_input.unicode) < cfg.min_text_length
                   THEN "skip" ELSE "go",
          tracker |-> [trk EXCEPT !.input = Text(translate_input.unicode)],
          translate_input |-> translate_input]

\* What pre_translate_paragraph does: "skip" is its (None, None), "go" its
\* (text, translate_input), "raise" an exception out of the builder.
pre_translate_paragraph(prov, cfg, paragraph, trk, page_font_map, xobj_font_map) ==
    IF paragraph.vertical
    THEN [type |-> "skip", tracker |-> trk, translate_input |-> NoValue]
    ELSE CHOOSE pre \in
             {Prepared(cfg, [trk EXCEPT !.pdf_unicode = Text(paragraph.unicode)],
                       translate_input) :
                 translate_input \in
                     {get_translate_input(
                          prov, paragraph,
                          FontMapFor(paragraph, page_font_map, xobj_font_map),
                          cfg.disable_rich_text_translate
                              \/ ~cfg.support_llm_translate).value}} : TRUE

\* the paragraph's compositions from the reparser's list, a None style of a
\* translated run replaced by the paragraph's style
Backfilled(result, paragraph) ==
    [i \in 1..Len(result) |->
        LET comp == result[i].comp IN
        IF comp.kind = "ssuc" /\ comp.ref.style = NoStyle
        THEN [comp EXCEPT !.ref.style = paragraph.style]
        ELSE comp]

\* mutant: the translated text is never taken as unchanged
NeverUnchanged(translated_text, translate_input) == FALSE

\* the test of post_translate_paragraph for "nothing to reconstruct"
IsUnchanged(translated_text, translate_input) ==
    translated_text = translate_input.unicode

\* the end of post_translate_paragraph, parsed being what the reparser
\* returned or raised for the text the paragraph's unicode is already set to
Reconstructed(paragraph, trk, parsed, translated_text) ==
    [type |-> IF parsed.type = "raise" THEN "raise" ELSE "changed",
     paragraph |->
        IF parsed.type = "raise" THEN [paragraph EXCEPT !.unicode = translated_text]
        ELSE [paragraph EXCEPT !.unicode = translated_text,
                               !.comps = Backfilled(parsed.result, paragraph)],
     tracker |-> IF parsed.full_match THEN MarkFullMatch(trk) ELSE trk,
     reparsed |-> TRUE]

\* What post_translate_paragraph does to the paragraph and its tracker:
\* "unchanged" is its return False, "changed" its return True, "raise" an
\* exception out of the reparser.
post_translate_paragraph(paragraph, trk, translate_input, translated_text) ==
    IF IsUnchanged(translated_text, translate_input)
    THEN [type |-> "unchanged", paragraph |-> paragraph,
          tracker |-> MarkFullMatch([trk EXCEPT !.output = Text(translated_text)]),
          reparsed |-> FALSE]
    ELSE CHOOSE post \in
             {Reconstructed(paragraph, [trk EXCEPT !.output = Text(translated_text)],
                            parsed, translated_text) :
                 parsed \in {parse_translate_output(translate_input, translated_text)}} :
             TRUE

\* a deep copy of a paragraph, as far as the prompt reads it
Snapshot(paragraph) ==
    [type |-> "paragraph", debug_id |-> paragraph.debug_id, unicode |-> paragraph.unicode]

\* generate_prompt_for_llm: the text to translate and the title hints; the
\* recent title is compared through title_paragraph.debug_id, which raises
\* when there is no first title
generate_prompt_for_llm(text, title_paragraph, local_title_paragraph) ==
    IF local_title_paragraph # NoValue /\ title_paragraph = NoValue
    THEN RaiseError("AttributeError")
    ELSE [type |-> "prompt", text |-> text,
          first_title |-> IF title_paragraph # NoValue
                          THEN Text(title_paragraph.unicode) ELSE NoValue,
          recent_title |-> IF local_title_paragraph # NoValue
                              /\ local_title_paragraph.debug_id # title_paragraph.debug_id
                           THEN Text(local_title_paragraph.unicode) ELSE NoValue]

----------------------------------------------------------------------------
(* Scheduling of the paragraph tasks *)

\* the constant the token count is subtracted from
PriorityBase == 1048576

\* calc_token_count: the tokenizer's count (one token per character here),
\* 0 when the tokenizer raises
calc_token_count(cfg, text) == IF cfg.tokenizer_ok THEN Len(text) ELSE 0

\* mutant: the priority grows with the token count
PriorityByLength(paragraph_token_count) == paragraph_token_count

\* the priority a paragraph task is submitted with
Priority(paragraph_token_count) == PriorityBase - paragraph_token_count

\* max_workers of the executor
max_workers(cfg) == Min({cfg.qps * 2, cfg.qps + 5})

\* find_title_paragraph: the first paragraph labelled "title", in page order
find_title_paragraph(paras) ==
    LET titles == {i \in 1..Len(paras) : paras[i].layout_label = "title"} IN
    IF titles = {} THEN NoValue
    ELSE paras[CHOOSE i \in titles : \A j \in titles : i <= j]

\* a paragraph task as submitted: the keyword arguments of executor.submit
\* and, for the record, what became of it (state, outcome, failed_in), the
\* input built for it, the translator interfaces it called, the
\* translator's answer as returned and whether the reparser ran
Task(priority, paragraph_token_count, title_paragraph, local_title_paragraph) ==
    [state |-> "queued", outcome |-> "none", failed_in |-> "none",
     priority |-> priority, paragraph_token_count |-> paragraph_token_count,
     title_paragraph |-> title_paragraph,
     local_title_paragraph |-> local_title_paragraph,
     translate_input |-> NoValue, calls |-> <<>>, returned |-> NoValue,
     reparsed |-> FALSE]

\* the task has returned
Finished(t, outcome) == [t EXCEPT !.state = "done", !.outcome = outcome]

\* mutant: a task whose exception was caught is queued again
CaughtRequeued(t, stage) == [t EXCEPT !.state = "queued", !.failed_in = stage]

\* mutant: an exception is not caught and its task never settles
NotCaught(t, stage) == [t EXCEPT !.state = "aborted", !.failed_in = stage]

\* except Exception: log and return
Caught(t, stage) == [Finished(t, "failed") EXCEPT !.failed_in = stage]

\* PriorityThreadPoolExecutor: the queued task a free worker takes next is
\* one of the highest priority
TakenNext(tasks, i) ==
    /\ tasks[i].state = "queued"
    /\ \A j \in 1..Len(tasks) :
          tasks[j].state = "queued" => tasks[j].priority <= tasks[i].priority

\* the workers that are running a task
Busy(tasks) == Cardinality({i \in 1..Len(tasks) : tasks[i].state \notin {"queued", "done"}})

\* mutant: the cancellation check never raises
NeverRaises(signalled) == FALSE

\* translation_config.raise_if_cancelled(): raises once cancellation has
\* been signalled
raise_if_cancelled(signalled) == signalled

\* mutant: leaving the with block advances the bar twice
AdvanceTwice(bar) == [bar EXCEPT !.n = @ + 2]

\* pbar.advance()
advance(bar) == [bar EXCEPT !.n = @ + 1]

----------------------------------------------------------------------------
(* The factory applied to every paragraph text, start id and provider of   *)
(* the bounded sets.                                                       *)

FactoryTexts ==
    Strs({<<"a">>, <<"v", "1">>, <<"v", "2">>, <<"b", "1">>, <<"e", "2">>},
         MaxTextPieces)

FormulaTables == [1..TabIds -> {<<"v", "1">>, <<"v", "2">>, <<"a">>}]

LeftTables == [1..TabIds -> {<<"b", "1">>, <<"b", "2">>}]

RightTables == [1..TabIds -> {<<"e", "2">>, <<"a">>}]

Rules == {"std", "last"}

FactoryInit ==
    /\ fn = "none"
    /\ arg = NoValue
    /\ ret = NoValue
    /\ NoRun

CallCreateFormula ==
    /\ fn = "none"
    /\ \E unicode \in FactoryTexts, id \in 1..(TabIds + 1),
          f \in FormulaTables, rule \in Rules :
          LET prov == [StdProvider EXCEPT !.f = f, !.rule = rule] IN
          /\ fn' = "create_formula_placeholder"
          /\ arg' = [type |-> "factory", prov |-> prov, id |-> id, unicode |-> unicode]
          /\ ret' = create_formula_placeholder(prov, NoValue, id, unicode)
    /\ UNCHANGED mvars

CallCreateRichText ==
    /\ fn = "none"
    /\ \E unicode \in FactoryTexts, id \in 1..(TabIds + 1),
          l \in LeftTables, r \in RightTables, rule \in Rules :
          LET prov == [StdProvider EXCEPT !.l = l, !.r = r, !.rule = rule] IN
          /\ fn' = "create_rich_text_placeholder"
          /\ arg' = [type |-> "factory", prov |-> prov, id |-> id, unicode |-> unicode]
          /\ ret' = create_rich_text_placeholder(prov, NoValue, id, unicode)
    /\ UNCHANGED mvars

FactoryNext == CallCreateFormula \/ CallCreateRichText

FactorySpec == FactoryInit /\ [][FactoryNext]_vars

\* the tokens of the placeholder the provider gives for an id collide with the text
FormulaIdCollides(prov, id, unicode) ==
    IsSubstr(get_formular_placeholder(prov, id), unicode)

RichTextIdCollides(prov, id, unicode) ==
    \/ IsSubstr(get_rich_text_left_placeholder(prov, id), unicode)
    \/ IsSubstr(get_rich_text_right_placeholder(prov, id), unicode)

(* C1: the placeholder the factory returns carries the provider's token(s) *)
(* for its id, none of them occurs in the paragraph's text, and its id is  *)
(* the smallest id >= the start id for which that holds (every id from the *)
(* start id up to it collided, and each collision moved on by exactly 1).  *)
C1_PlaceholderUnique ==
    /\ (fn = "create_formula_placeholder" /\ ret.type = "formula") =>
          /\ ret.placeholder = get_formular_placeholder(arg.prov, ret.id)
          /\ ~IsSubstr(ret.placeholder, arg.unicode)
          /\ ret.id >= arg.id
          /\ \A j \in arg.id..(ret.id - 1) : FormulaIdCollides(arg.prov, j, arg.unicode)
    /\ (fn = "create_rich_text_placeholder" /\ ret.type = "rich") =>
          /\ ret.left = get_rich_text_left_placeholder(arg.prov, ret.id)
          /\ ret.right = get_rich_text_right_placeholder(arg.prov, ret.id)
          /\ ~IsSubstr(ret.left, arg.unicode)
          /\ ~IsSubstr(ret.right, arg.unicode)
          /\ ret.id >= arg.id
          /\ \A j \in arg.id..(ret.id - 1) : RichTextIdCollides(arg.prov, j, arg.unicode)

\* a rich-text placeholder returned after two retries, the first forced by
\* the right token alone
C1_Witness ==
    /\ fn = "create_rich_text_placeholder"
    /\ ret.type = "rich"
    /\ ret.id = arg.id + 2
    /\ ~IsSubstr(get_rich_text_left_placeholder(arg.prov, arg.id), arg.unicode)
    /\ IsSubstr(get_rich_text_right_placeholder(arg.prov, arg.id), arg.unicode)

----------------------------------------------------------------------------
(* The builder applied to paragraphs of up to MaxRuns bold runs between a  *)
(* leading and a trailing composition.                                     *)

LineComp(chars, oid) == Composition("line", Object(chars, <<>>, NoStyle, oid))

FormulaComp(oid) == Composition("formula", Object(<<"x">>, <<>>, NoStyle, oid))

RunComp(style, oid) == Composition("ssc", Object(<<"a">>, <<>>, style, oid))

\* a composition with no field set
UnknownComp == Composition("unknown", Object(<<>>, <<>>, NoStyle, 0))

RECURSIVE CompsText(_)
\* paragraph.unicode: the text of the paragraph's characters
CompsText(comps) ==
    IF comps = <<>> THEN <<>>
    ELSE (IF Head(comps).kind = "ssuc" THEN Head(comps).ref.unicode
          ELSE Head(comps).ref.chars) \o CompsText(Tail(comps))

\* fonts F1 and F2 map to the same font, F3 to another, F4 to none
PageFontMap ==
    [f \in {"F1", "F2", "F3", "F4"} |->
        [font_id |-> f,
         maps_to |-> CASE f = "F3" -> "M2" [] f = "F4" -> "none" [] OTHER -> "M1"]]

Leads == {<<>>, <<FormulaComp(101)>>, <<LineComp(<<"a">>, 101)>>}

\* the styles of a trailing run: another font that maps to the base
\* font's, one that maps to another font, one that maps to none, a size
\* within and a size beyond the tolerance
RunStyles ==
    {BaseStyle, Style("F2", 100, "plain"), Style("F3", 100, "plain"),
     Style("F4", 100, "plain"), Style("F1", 120, "plain"), Style("F1", 140, "plain")}

\* the trailing compositions; a trailing line may hold the text of a token
\* (of the second formula, of the left token of id 2, of the right token
\* of id 3), and a formula may follow it
Tails ==
    {<<>>, <<FormulaComp(102)>>, <<UnknownComp>>, <<LineComp(<<"v", "2">>, 102)>>,
     <<LineComp(<<"v", "2">>, 102), FormulaComp(103)>>,
     <<LineComp(<<"b", "2">>, 102)>>, <<LineComp(<<"e", "3">>, 102)>>}
        \cup {<<RunComp(style, 102)>> : style \in RunStyles}

RunsParagraph(lead, runs, tail) ==
    LET comps == lead \o [i \in 1..runs |-> RunComp(BoldStyle, i)] \o tail IN
    Paragraph(CompsText(comps), comps, BaseStyle, FALSE, "text", 0, 1)

BuilderInit ==
    /\ fn = "none"
    /\ arg = NoValue
    /\ ret = NoValue
    /\ NoRun

CallGetTranslateInput ==
    /\ fn = "none"
    /\ \E lead \in Leads, runs \in 0..MaxRuns, tail \in Tails, disable \in BOOLEAN :
          LET paragraph == RunsParagraph(lead, runs, tail) IN
          /\ fn' = "get_translate_input"
          /\ arg' = [type |-> "build", paragraph |-> paragraph, disable |-> disable]
          /\ ret' = get_translate_input(StdProvider, paragraph, PageFontMap, disable)
    /\ UNCHANGED mvars

BuilderNext == CallGetTranslateInput

BuilderSpec == BuilderInit /\ [][BuilderNext]_vars

BuildDone == fn = "get_translate_input"

\* the compositions among the first n that take a placeholder when rich
\* text is enabled: the formulas and the runs whose style needs one
NeedsPlaceholder(paragraph, n, type) ==
    {i \in 1..n :
        LET c == paragraph.comps[i] IN
        \/ type = "formula" /\ c.kind = "formula"
        \/ /\ type = "rich"
           /\ c.kind = "ssc"
           /\ ~NoPlaceholderNeeded(c.ref.style, paragraph.style, PageFontMap)}

\* with rich text enabled, the builder gets past 40 placeholders: at some
\* composition, reached without meeting an unknown one, the count is over 40
Accumulates41(paragraph) ==
    /\ Len(paragraph.comps) > 1
    /\ \E n \in 1..Len(paragraph.comps) :
          /\ \A i \in 1..n : paragraph.comps[i].kind \in {"line", "formula", "char", "ssc"}
          /\ Cardinality(NeedsPlaceholder(paragraph, n, "formula"))
               + Cardinality(NeedsPlaceholder(paragraph, n, "rich")) > PlaceholderLimit

OnlyFormulaPlaceholders(input_text) ==
    \A k \in 1..Len(input_text.placeholders) : input_text.placeholders[k].type = "formula"

NeedsManyRichTexts(paragraph) ==
    Cardinality(NeedsPlaceholder(paragraph, Len(paragraph.comps), "rich"))
        > PlaceholderLimit

(* C7 as stated, its last part: a paragraph that needs 41 or more          *)
(* rich-text placeholders yields a TranslateInput, and one holding only    *)
(* formula placeholders.                                                   *)
C7_Original ==
    (BuildDone /\ NeedsManyRichTexts(arg.paragraph)) =>
        /\ ret.value.type = "input"
        /\ OnlyFormulaPlaceholders(ret.value)

(* C7, amended: the builder goes through the compositions a second time,   *)
(* with rich text disabled, exactly when rich text was enabled and the     *)
(* placeholders got past 40; an input it returns with a rich-text          *)
(* placeholder has at most 40 placeholders; and for a paragraph that needs *)
(* 41 or more rich-text placeholders it returns nothing or an input        *)
(* holding only formula placeholders.                                      *)
C7_CircuitBreaker ==
    BuildDone =>
        /\ ret.passes = 2 <=> (~arg.disable /\ Accumulates41(arg.paragraph))
        /\ ret.passes = 2 =>
              ret.value = get_translate_input(StdProvider, arg.paragraph,
                                              PageFontMap, TRUE).value
        /\ (ret.value.type = "input" /\ ~OnlyFormulaPlaceholders(ret.value)) =>
              Len(ret.value.placeholders) <= PlaceholderLimit
        /\ NeedsManyRichTexts(arg.paragraph) =>
              \/ ret.value.type = "none"
              \/ ret.value.type = "input" /\ OnlyFormulaPlaceholders(ret.value)

\* a paragraph of a formula and 41 bold runs, built with rich text enabled:
\* the second pass returned an input holding the formula's placeholder alone
C7_Witness ==
    /\ BuildDone
    /\ ~arg.disable
    /\ NeedsManyRichTexts(arg.paragraph)
    /\ ret.passes = 2
    /\ ret.value.type = "input"
    /\ Len(ret.value.placeholders) = 1

----------------------------------------------------------------------------
(* The reparser applied to every placeholder list and translated text of   *)
(* the bounded sets.  A translated text is made of pieces: the             *)
(* placeholders' tokens, the same tokens in capitals (a translator that    *)
(* changed their case), and plain characters.                              *)

FormulaObject == Object(<<"x">>, <<>>, NoStyle, 1)

RunObject(oid) == Object(<<"a">>, <<>>, BoldStyle, oid)

F1 == FormulaPlaceholder(1, FormulaObject, <<"v", "1">>)

R1 == RichTextPlaceholder(1, RunObject(2), <<"b", "1">>, <<"e", "1">>)

R2 == RichTextPlaceholder(2, RunObject(2), <<"b", "2">>, <<"e", "2">>)

R3 == RichTextPlaceholder(3, RunObject(3), <<"b", "3">>, <<"e", "3">>)

\* a well-formed span of a rich-text placeholder around translated text
SpanText(p) == p.left \o <<"x">> \o p.right

ReparseCases ==
    { [placeholders |-> <<>>,
       pieces |-> {<<"a">>, <<" ">>, <<"v", "1">>}],
      [placeholders |-> <<F1>>,
       pieces |-> {<<"v", "1">>, <<"V", "1">>, <<"a">>, <<" ">>, <<"x">>}],
      [placeholders |-> <<R1>>,
       pieces |-> {<<"b", "1">>, <<"e", "1">>, <<"B", "1">>, <<"E", "1">>,
                   <<"a">>, <<" ">>, <<"x">>}],
      [placeholders |-> <<F1, R2>>,
       pieces |-> {<<"v", "1">>, <<"V", "1">>, <<"b", "2">>, <<"e", "2">>,
                   <<"a">>, <<"x">>}],
      [placeholders |-> <<R1, R3>>,
       pieces |-> {<<"b", "1">>, <<"e", "1">>, <<"b", "3">>, <<"e", "3">>, <<"a">>}],
      [placeholders |-> <<R1, R3>>,
       pieces |-> {SpanText(R1), SpanText(R3), <<"a">>, <<"e", "1">>}] }

ReparseInit ==
    /\ fn = "none"
    /\ \E c \in ReparseCases :
       \E output \in Strs(c.pieces, MaxOutPieces) :
          arg = [type |-> "reparse",
                 input_text |-> TranslateInput(<<"a">>, c.placeholders, BaseStyle),
                 output |-> output]
    /\ ret = NoValue
    /\ NoRun

CallParseTranslateOutput ==
    /\ fn = "none"
    /\ arg.type = "reparse"
    /\ fn' = "parse_translate_output"
    /\ ret' = parse_translate_output(arg.input_text, arg.output)
    /\ UNCHANGED <<arg, mvars>>

ReparseNext == CallParseTranslateOutput

ReparseSpec == ReparseInit /\ [][ReparseNext]_vars

ParseDone == fn = "parse_translate_output"

RECURSIVE ScanFrom(_, _, _)
\* the matches re.finditer yields, as a set
ScanFrom(placeholders, output, pos) ==
    LET m == NextMatch(placeholders, output, pos) IN
    IF ~m.found THEN {} ELSE {m} \cup ScanFrom(placeholders, output, m.end)

ScanMatches == ScanFrom(arg.input_text.placeholders, arg.output, 0)

\* the emissions of the returned list that cover the slice [from, to)
EmittedAt(from, to) ==
    {i \in 1..Len(ret.result) : ret.result[i].from = from /\ ret.result[i].to = to}

(* C4: the list the reparser returns covers the translated text: each      *)
(* composition comes from one non-empty slice, the slices follow each      *)
(* other from offset 0 to the end with no gap and no overlap, a plain-text *)
(* composition holds its slice with the placeholder tokens stripped, and a *)
(* placeholder's composition comes from a slice that is a match.           *)
C4_FullCoverage ==
    (ParseDone /\ ret.type = "parsed") =>
        LET r == ret.result
            out == arg.output
            phs == arg.input_text.placeholders
        IN
        /\ (r = <<>>) <=> (phs # <<>> /\ out = <<>>)
        /\ r # <<>> => r[1].from = 0 /\ r[Len(r)].to = Len(out)
        /\ \A i \in 1..(Len(r) - 1) : r[i].to = r[i + 1].from
        /\ \A i \in 1..Len(r) :
              /\ phs # <<>> => r[i].from < r[i].to
              /\ r[i].ph = 0 =>
                    /\ r[i].comp.kind = "ssuc"
                    /\ r[i].comp.ref.unicode =
                          remove_placeholder(phs, Slice(out, r[i].from, r[i].to))
              /\ r[i].ph # 0 =>
                    \E m \in ScanMatches : m.start = r[i].from /\ m.end = r[i].to

\* a list of plain text, a placeholder's composition and plain text again,
\* where stripping took a stray token out of a plain text
C4_Witness ==
    /\ ParseDone
    /\ ret.type = "parsed"
    /\ Len(ret.result) >= 3
    /\ \E i \in 1..Len(ret.result) : ret.result[i].ph # 0
    /\ \E i \in 1..Len(ret.result) :
          /\ ret.result[i].ph = 0
          /\ ret.result[i].comp.ref.unicode
                # Slice(arg.output, ret.result[i].from, ret.result[i].to)

(* C5: for every occurrence of a formula placeholder the case-insensitive  *)
(* scan locates, whatever its letter case, the reparse does not fail and   *)
(* the list holds, for that slice, a composition wrapping the              *)
(* placeholder's original formula object.                                  *)
C5_FormulaRecovered ==
    ParseDone =>
        \A m \in ScanMatches :
            LET p == arg.input_text.placeholders[m.alt] IN
            p.type = "formula" =>
                /\ ret.type = "parsed"
                /\ \E i \in EmittedAt(m.start, m.end) :
                      ret.result[i].comp = Composition("formula", p.obj)

(* C6: for every rich-text match of the scan the list holds, for that      *)
(* slice, the original run object when the inner text is the run's         *)
(* characters (spaces aside), and otherwise a translated run with the      *)
(* inner text and the original run's style.                                *)
C6_RichTextRecovered ==
    ParseDone =>
        \A m \in ScanMatches :
            LET phs == arg.input_text.placeholders
                p == phs[m.alt]
                inner == Slice(arg.output, m.start + Len(p.left), m.end - Len(p.right))
            IN
            p.type = "rich" =>
                /\ ret.type = "parsed"
                /\ \E i \in EmittedAt(m.start, m.end) :
                      ret.result[i].comp =
                         IF RemoveSpaces(inner) = RemoveSpaces(p.obj.chars)
                         THEN Composition("ssc", p.obj)
                         ELSE UnicodeComposition(remove_placeholder(phs, inner),
                                                 p.obj.style)

\* a rich-text placeholder whose right token is nowhere in the output
RightMissing(p, output) == p.type = "rich" /\ ~IsSubstrIC(p.right, output)

(* C9: with placeholders, the full-match flag is set exactly when every    *)
(* placeholder's capture pattern is found in the translated text; when a   *)
(* rich-text placeholder's right token is missing the flag is not set, the *)
(* reparse returns a list without raising, and no plain-text composition   *)
(* holds that placeholder's left token.                                    *)
C9_PartialMatchTolerated ==
    (ParseDone /\ arg.input_text.placeholders # <<>>) =>
        LET phs == arg.input_text.placeholders IN
        /\ ret.full_match <=> \A k \in 1..Len(phs) : CaptureFound(phs[k], arg.output)
        /\ \A k \in 1..Len(phs) :
              RightMissing(phs[k], arg.output) =>
                  /\ ~ret.full_match
                  /\ ret.type = "parsed"
                  /\ \A i \in 1..Len(ret.result) :
                        ret.result[i].ph = 0 =>
                            ~IsSubstrIC(phs[k].left, ret.result[i].comp.ref.unicode)

----------------------------------------------------------------------------
(* Several rich-text spans in one translated text *)

\* what a translated text is made of: the span of the first placeholder,
\* the span of the second, plain text, a stray right token of the first
Items == {"span1", "span2", "text", "right1"}

\* the texts of up to MaxOutPieces items with each span at most once and in
\* either order
Arrangements ==
    {arr \in UNION {[1..n -> Items] : n \in 1..MaxOutPieces} :
        /\ Cardinality({k \in DOMAIN arr : arr[k] = "span1"}) = 1
        /\ Cardinality({k \in DOMAIN arr : arr[k] = "span2"}) = 1}

ItemText(placeholders, item) ==
    CASE item = "span1" -> SpanText(placeholders[1])
      [] item = "span2" -> SpanText(placeholders[2])
      [] item = "text" -> <<"a">>
      [] item = "right1" -> placeholders[1].right

RECURSIVE Rendered(_, _)
Rendered(placeholders, arr) ==
    IF arr = <<>> THEN <<>>
    ELSE ItemText(placeholders, Head(arr)) \o Rendered(placeholders, Tail(arr))

RECURSIVE SpansOf(_, _, _)
\* where the spans of an arrangement lie in its text, from offset pos on
SpansOf(placeholders, arr, pos) ==
    IF arr = <<>> THEN <<>>
    ELSE LET to == pos + Len(ItemText(placeholders, Head(arr))) IN
         (IF Head(arr) = "span1" THEN <<[from |-> pos, to |-> to, ph |-> 1]>>
          ELSE IF Head(arr) = "span2" THEN <<[from |-> pos, to |-> to, ph |-> 2]>>
          ELSE <<>>) \o SpansOf(placeholders, Tail(arr), to)

RECURSIVE MatchesOf(_)
\* the matches among the reparser's compositions, in their order
MatchesOf(result) ==
    IF result = <<>> THEN <<>>
    ELSE (IF Head(result).ph = 0 THEN <<>>
          ELSE <<[from |-> Head(result).from, to |-> Head(result).to,
                  ph |-> Head(result).ph]>>) \o MatchesOf(Tail(result))

\* C15: a translated text made of the well-formed spans of two rich-text
\* placeholders, next to each other or with plain text (a stray right
\* token included) around them, is reparsed into one composition per span,
\* in text order, each match ending at the span's own right token.
C15_SpansMatchedSeparately ==
    (ParseDone /\ Len(arg.input_text.placeholders) = 2
               /\ arg.input_text.placeholders[1].type = "rich"
               /\ arg.input_text.placeholders[2].type = "rich") =>
        \A arr \in Arrangements :
            Rendered(arg.input_text.placeholders, arr) = arg.output =>
                /\ ret.type = "parsed"
                /\ MatchesOf(ret.result) = SpansOf(arg.input_text.placeholders, arr, 0)
                /\ \A k \in 1..Len(ret.result) :
                      ret.result[k].ph # 0 => ret.result[k].comp.kind = "ssuc"

\* the two spans next to each other and a stray right token of the first
\* after them: two matches, the first ending before the second span
C15_Witness ==
    /\ ParseDone
    /\ arg.output = SpanText(R1) \o SpanText(R3) \o R1.right
    /\ ret.type = "parsed"
    /\ Len(MatchesOf(ret.result)) = 2
    /\ MatchesOf(ret.result)[1].to = Len(SpanText(R1))
    /\ MatchesOf(ret.result)[2].from = Len(SpanText(R1))

----------------------------------------------------------------------------
(* Placeholders of the styled runs *)

\* the rich-text placeholders of an input that stand for the run obj
RichTextsOf(input, obj) ==
    {k \in 1..Len(input.placeholders) :
        input.placeholders[k].type = "rich" /\ input.placeholders[k].obj = obj}

\* the run's style differs from the base style by more than its size
\* within the tolerance and more than a font that maps to the same font
StyleDiffers(style, base) ==
    /\ ~is_same_style(style, base)
    /\ ~is_same_style_except_size(style, base)
    /\ ~(/\ is_same_style_except_font(style, base)
         /\ MappedFontId(PageFontMap[style.font_id]) # "none"
         /\ MappedFontId(PageFontMap[style.font_id])
                = MappedFontId(PageFontMap[base.font_id]))

RECURSIVE TextWithTokens(_, _)
\* the input text that the compositions make when each formula gives its
\* token and exactly the runs with a rich-text placeholder are wrapped
TextWithTokens(comps, input) ==
    IF comps = <<>> THEN <<>>
    ELSE LET c == Head(comps)
             rich == RichTextsOf(input, c.ref)
             formulas == {k \in 1..Len(input.placeholders) :
                             /\ input.placeholders[k].type = "formula"
                             /\ input.placeholders[k].obj = c.ref}
         IN (IF c.kind = "formula"
             THEN input.placeholders[Min(formulas)].placeholder
             ELSE IF c.kind = "ssc" /\ rich # {}
             THEN input.placeholders[Min(rich)].left \o c.ref.chars
                      \o input.placeholders[Min(rich)].right
             ELSE c.ref.chars) \o TextWithTokens(Tail(comps), input)

\* C14: in an input built of several compositions, a run has a rich-text
\* placeholder exactly when rich text is enabled (asked for, and not given
\* up by the circuit breaker) and its style differs from the base style;
\* it has at most one, and every other run gives its characters alone.
C14_RichTextIffStyleDiffers ==
    (BuildDone /\ ret.value.type = "input" /\ Len(arg.paragraph.comps) > 1) =>
        /\ \A k \in 1..Len(arg.paragraph.comps) :
              LET c == arg.paragraph.comps[k] IN
              c.kind = "ssc" =>
                  /\ Cardinality(RichTextsOf(ret.value, c.ref)) <= 1
                  /\ RichTextsOf(ret.value, c.ref) # {}
                        <=> (/\ ~arg.disable
                             /\ ret.passes = 1
                             /\ StyleDiffers(c.ref.style, arg.paragraph.style))
        /\ ret.value.unicode = TextWithTokens(arg.paragraph.comps, ret.value)

\* built with rich text enabled: a bold run has a placeholder, a trailing
\* run in another font that maps to the base font's has none
C14_Witness ==
    /\ BuildDone
    /\ ret.value.type = "input"
    /\ ~arg.disable
    /\ ret.passes = 1
    /\ \E k, l \in 1..Len(arg.paragraph.comps) :
          /\ arg.paragraph.comps[k].kind = "ssc"
          /\ arg.paragraph.comps[k].ref.style = BoldStyle
          /\ RichTextsOf(ret.value, arg.paragraph.comps[k].ref) # {}
          /\ arg.paragraph.comps[l].kind = "ssc"
          /\ arg.paragraph.comps[l].ref.style.font_id = "F2"
          /\ RichTextsOf(ret.value, arg.paragraph.comps[l].ref) = {}

----------------------------------------------------------------------------
(* The ids of an input's placeholders *)

\* the least id the placeholder after ph may have: a formula takes one id,
\* a styled run two
IdAfter(ph) == IF ph.type = "formula" THEN ph.id + 1 ELSE ph.id + 2

\* C17: in an input the builder returns, the first placeholder's id is at
\* least 1, the placeholder after a formula placeholder of id n has an id
\* of at least n + 1 and the one after a rich-text placeholder of id n an
\* id of at least n + 2, so the ids strictly increase along the list and
\* no two placeholders share one; retries after a collision keep this.
C17_IdsIncrease ==
    (BuildDone /\ ret.value.type = "input") =>
        LET placeholders == ret.value.placeholders IN
        /\ placeholders # <<>> => placeholders[1].id >= 1
        /\ \A k \in 1..Len(placeholders) - 1 :
              placeholders[k + 1].id >= IdAfter(placeholders[k])
        /\ \A k, l \in 1..Len(placeholders) :
              k < l => placeholders[k].id < placeholders[l].id

\* an input with a placeholder whose id was bumped by a collision, between
\* two others: the ids skip one after a styled run and go on from the
\* bumped id
C17_Witness ==
    /\ BuildDone
    /\ ret.value.type = "input"
    /\ \E k \in 1..Len(ret.value.placeholders) - 2 :
          LET placeholders == ret.value.placeholders IN
          /\ placeholders[k].type = "rich"
          /\ placeholders[k + 1].type = "rich"
          /\ placeholders[k + 1].id = placeholders[k].id + 3
          /\ IsSubstr(get_rich_text_right_placeholder(StdProvider, placeholders[k].id + 2),
                      arg.paragraph.unicode)
          /\ placeholders[k + 2].id = placeholders[k + 1].id + 2

----------------------------------------------------------------------------
(* A translation run: translate() over a document of three paragraphs,    *)
(* the workers of the executor, and the translator's answers.             *)

\* the page's fonts, and those of its one XObject, which adds font F5
XobjFontMap ==
    [x \in {1} |->
        [f \in DOMAIN PageFontMap \cup {"F5"} |->
            IF f = "F5" THEN [font_id |-> "F5", maps_to |-> "M2"] ELSE PageFontMap[f]]]

Dots(n) == [i \in 1..n |-> "."]

TextParagraph(comps, label, xobj_id, d) ==
    Paragraph(CompsText(comps), comps, BaseStyle, FALSE, label, xobj_id, d)

\* text, a formula, text
P_formula(d) ==
    TextParagraph(<<LineComp(<<"a", "a">>, 10 * d + 1), FormulaComp(10 * d + 2),
                    LineComp(<<"a">>, 10 * d + 3)>>, "text", 0, d)

\* a title of one line
P_title(d) == TextParagraph(<<LineComp(<<"a", "a">>, 10 * d + 1)>>, "title", 0, d)

\* a longer title
P_title2(d) == TextParagraph(<<LineComp(<<"a", "a", "a">>, 10 * d + 1)>>, "title", 0, d)

\* a line of a table of contents: a letter and a leader of dots
P_leader(d) ==
    TextParagraph(<<LineComp(<<"a">> \o Dots(NormalizeRun), 10 * d + 1)>>, "text", 0, d)

\* text and a bold run
P_rich(d) ==
    TextParagraph(<<LineComp(<<"a", "a">>, 10 * d + 1), RunComp(BoldStyle, 10 * d + 2)>>,
                  "text", 0, d)

\* one character
P_short(d) == TextParagraph(<<LineComp(<<"a">>, 10 * d + 1)>>, "text", 0, d)

\* vertical text
P_vertical(d) == [P_title(d) EXCEPT !.vertical = TRUE, !.layout_label = "text"]

\* text and a run in a font the page does not have
P_missingfont(d) ==
    TextParagraph(<<LineComp(<<"a", "a">>, 10 * d + 1),
                    RunComp(Style("F9", 100, "plain"), 10 * d + 2)>>, "text", 0, d)

\* text and a run in the font of the XObject the paragraph is in
P_xobj(d) ==
    TextParagraph(<<LineComp(<<"a", "a">>, 10 * d + 1),
                    RunComp(Style("F5", 100, "plain"), 10 * d + 2)>>, "text", 1, d)

\* no composition at all
P_empty(d) == TextParagraph(<<>>, "text", 0, d)

\* a formula alone
P_lone_formula(d) == TextParagraph(<<FormulaComp(10 * d + 1)>>, "text", 0, d)

\* one composition of text translated before
P_pretranslated(d) ==
    TextParagraph(<<UnicodeComposition(<<"a", "a">>, BaseStyle)>>, "text", 0, d)

\* text and a composition of no known variant
P_unknown(d) == TextParagraph(<<LineComp(<<"a", "a">>, 10 * d + 1), UnknownComp>>, "text", 0, d)

\* docs: page[k] lists the paragraphs of page k by their number in paras
Document(page, paras) == [type |-> "doc", page |-> page, paras |-> paras]

Documents ==
    {Document(<<<<1, 2>>, <<3>>>>, <<P_title(1), P_formula(2), P_leader(3)>>),
     Document(<<<<1>>, <<2, 3>>>>, <<P_formula(1), P_rich(2), P_short(3)>>),
     Document(<<<<1, 2, 3>>>>, <<P_vertical(1), P_missingfont(2), P_title(3)>>),
     Document(<<<<1>>, <<2>>, <<3>>>>, <<P_title(1), P_xobj(2), P_title2(3)>>),
     Document(<<<<1, 2>>, <<3, 4>>>>,
              <<P_empty(1), P_lone_formula(2), P_pretranslated(3), P_unknown(4)>>)}

\* translation_config and what the constructor finds out about the engine
\* and the tokenizer
Configs ==
    {[type |-> "config", support_llm_translate |-> llm,
      disable_rich_text_translate |-> disable, min_text_length |-> MinTextLength,
      qps |-> qps, tokenizer_ok |-> tok] :
        llm \in BOOLEAN, disable \in BOOLEAN, qps \in 1..MaxQps, tok \in BOOLEAN}

\* shared_context_cross_split_part
SharedContext(first_paragraph, recent_title_paragraph) ==
    [type |-> "shared", first_paragraph |-> first_paragraph,
     recent_title_paragraph |-> recent_title_paragraph]

\* the first title an earlier part of a split document has left behind
EarlierTitle == [type |-> "paragraph", debug_id |-> 90, unicode |-> <<"e", "e">>]

\* the last title of that earlier part
EarlierRecentTitle == [type |-> "paragraph", debug_id |-> 91, unicode |-> <<"e">>]

\* mutant: a title paragraph does not become the recent title
KeepRecentTitle(context, paragraph) == context

\* process_page before a submission: a paragraph labelled "title" becomes
\* the recent title, as a deep copy
UpdateRecentTitle(context, paragraph) ==
    IF paragraph.layout_label = "title"
    THEN [context EXCEPT !.recent_title_paragraph = Snapshot(paragraph)]
    ELSE context

\* the translation of a text: every "a" becomes "x"
Tr(text) == [i \in 1..Len(text) |-> IF text[i] = "a" THEN "x" ELSE text[i]]

\* what the translator may return for a text: the text itself, its
\* translation, its translation in capitals
Answers(text) == {text, Tr(text), UpperStr(Tr(text))}

Init ==
    /\ fn = "none"
    /\ arg = NoValue
    /\ ret = NoValue
    /\ config \in Configs
    /\ doc \in Documents
    /\ paragraphs = doc.paras
    /\ shared \in {SharedContext(NoValue, NoValue),
                   SharedContext(EarlierTitle, EarlierRecentTitle)}
    /\ main = [pc |-> "begin", page |-> 0, pos |-> 0, raising |-> FALSE]
    /\ task = <<>>
    /\ cancelled = FALSE
    /\ pbar = NoValue
    /\ tracker = <<>>

\* translate(), up to the loop over the pages: the title snapshots, unless
\* an earlier part has set them, and the progress bar over all paragraphs
Translate_Begin ==
    /\ main.pc = "begin"
    /\ shared' = IF shared.first_paragraph = NoValue
                 THEN LET title_paragraph == find_title_paragraph(paragraphs) IN
                      IF title_paragraph = NoValue
                      THEN SharedContext(NoValue, NoValue)
                      ELSE SharedContext(Snapshot(title_paragraph),
                                         Snapshot(title_paragraph))
                 ELSE shared
    /\ pbar' = [type |-> "pbar", total |-> Len(paragraphs), n |-> 0]
    /\ main' = [main EXCEPT !.pc = "page", !.page = 1]
    /\ UNCHANGED <<config, doc, paragraphs, task, cancelled, tracker, pvars>>

\* the loop over docs.page and the head of process_page: past the last
\* page the executor is left; a cancelled run raises here
ProcessPage ==
    /\ main.pc = "page"
    /\ main' = IF main.page > Len(doc.page) THEN [main EXCEPT !.pc = "join"]
               ELSE IF raise_if_cancelled(cancelled)
                    THEN [main EXCEPT !.pc = "join", !.raising = TRUE]
               ELSE [main EXCEPT !.pc = "submit", !.pos = 1]
    /\ UNCHANGED <<config, doc, paragraphs, shared, task, cancelled, pbar, tracker, pvars>>

\* one round of the loop over page.pdf_paragraph: the token count, the
\* recent title, the submission
Submit ==
    /\ main.pc = "submit"
    /\ IF main.pos > Len(doc.page[main.page])
       THEN /\ main' = [main EXCEPT !.pc = "page", !.page = @ + 1]
            /\ UNCHANGED <<shared, task, tracker>>
       ELSE LET paragraph == paragraphs[doc.page[main.page][main.pos]]
                paragraph_token_count == calc_token_count(config, paragraph.unicode)
                context == UpdateRecentTitle(shared, paragraph)
            IN /\ shared' = context
               /\ task' = Append(task, Task(Priority(paragraph_token_count),
                                            paragraph_token_count,
                                            context.first_paragraph,
                                            context.recent_title_paragraph))
               /\ tracker' = Append(tracker, ParagraphTranslateTracker)
               /\ main' = [main EXCEPT !.pos = @ + 1]
    /\ UNCHANGED <<config, doc, paragraphs, cancelled, pbar, pvars>>

\* the end of the executor's with block waits for the submitted tasks;
\* then translate() returns, or the cancellation raised in process_page
\* leaves it
Join ==
    /\ main.pc = "join"
    /\ \A i \in 1..Len(task) : task[i].state = "done"
    /\ main' = [main EXCEPT !.pc = IF main.raising THEN "cancelled" ELSE "done"]
    /\ UNCHANGED <<config, doc, paragraphs, shared, task, cancelled, pbar, tracker, pvars>>

\* the user cancels the translation
Cancel ==
    /\ ~cancelled
    /\ main.pc \notin {"done", "cancelled"}
    /\ cancelled' = TRUE
    /\ UNCHANGED <<config, doc, paragraphs, shared, main, task, pbar, tracker, pvars>>

\* translate_paragraph from the attempt tracker to the call of the
\* translator, for the input the Pre step returned
CallTranslator(i, t, attempt, llm_prompt) ==
    IF ~config.support_llm_translate
    THEN /\ task' = [task EXCEPT ![i] = [t EXCEPT !.state = "translating",
                                                  !.calls = Append(@, "translate")]]
         /\ tracker' = [tracker EXCEPT ![i] = attempt]
         /\ UNCHANGED pbar
    ELSE IF llm_prompt.type = "raise"
    THEN /\ task' = [task EXCEPT ![i] = Caught(t, "prompt")]
         /\ tracker' = [tracker EXCEPT ![i] = attempt]
         /\ pbar' = advance(pbar)
    ELSE /\ task' = [task EXCEPT ![i] = [t EXCEPT !.state = "translating",
                                                  !.calls = Append(@, "llm_translate")]]
         /\ tracker' = [tracker EXCEPT ![i] = SetAttemptInput(attempt, llm_prompt)]
         /\ UNCHANGED pbar

\* translate_paragraph after the Pre step, pre being what it returned
AfterPre(i, pre) ==
    IF pre.type = "skip"
    THEN /\ task' = [task EXCEPT ![i] = Finished(@, "skipped")]
         /\ tracker' = [tracker EXCEPT ![i] = pre.tracker]
         /\ pbar' = advance(pbar)
    ELSE IF pre.type = "raise"
    THEN /\ task' = [task EXCEPT ![i] = Caught(@, "pre")]
         /\ tracker' = [tracker EXCEPT ![i] = pre.tracker]
         /\ pbar' = advance(pbar)
    ELSE CallTranslator(i, [task[i] EXCEPT !.translate_input = pre.translate_input],
                        new_llm_translate_tracker(pre.tracker),
                        generate_prompt_for_llm(pre.translate_input.unicode,
                                                task[i].title_paragraph,
                                                task[i].local_title_paragraph))

\* A worker takes task i and runs translate_paragraph up to the call of
\* the translator: the cancellation check, the Pre step, the attempt
\* tracker and the prompt.
StartTask(i) ==
    /\ i \in 1..Len(task)
    /\ TakenNext(task, i)
    /\ Busy(task) < max_workers(config)
    /\ IF raise_if_cancelled(cancelled)
       THEN /\ task' = [task EXCEPT ![i] = Finished(@, "cancelled")]
            /\ UNCHANGED <<tracker, pbar>>
       ELSE \E pre \in {pre_translate_paragraph(StdProvider, config, paragraphs[i],
                                                 tracker[i], PageFontMap, XobjFontMap)} :
               AfterPre(i, pre)
    /\ UNCHANGED <<config, doc, paragraphs, shared, main, cancelled, pvars>>

\* translate_paragraph after the Post step, post being what it did
AfterPost(i, t, post) ==
    /\ paragraphs' = [paragraphs EXCEPT ![i] = post.paragraph]
    /\ tracker' = [tracker EXCEPT ![i] = post.tracker]
    /\ task' = [task EXCEPT ![i] =
                   IF post.type = "raise"
                   THEN Caught([t EXCEPT !.reparsed = post.reparsed], "post")
                   ELSE IF post.type = "unchanged"
                   THEN Finished([t EXCEPT !.reparsed = post.reparsed], "unchanged")
                   ELSE Finished([t EXCEPT !.reparsed = post.reparsed], "translated")]

\* The translator returns for task i: the attempt's output, the Normalize
\* step and the Post step; an exception of the reparser is caught.
TranslatorReturns(i) ==
    /\ i \in 1..Len(task)
    /\ task[i].state = "translating"
    /\ \E answer \in Answers(task[i].translate_input.unicode) :
          \E translated_text \in {Normalize(answer)} :
              \E post \in {post_translate_paragraph(
                                paragraphs[i],
                                IF config.support_llm_translate
                                THEN SetAttemptOutput(tracker[i], answer) ELSE tracker[i],
                                task[i].translate_input, translated_text)} :
                  AfterPost(i, [task[i] EXCEPT !.returned = Text(answer)], post)
    /\ pbar' = advance(pbar)
    /\ UNCHANGED <<config, doc, shared, main, cancelled, pvars>>

\* The translator raises for task i (a backend error): caught.
TranslatorRaises(i) ==
    /\ i \in 1..Len(task)
    /\ task[i].state = "translating"
    /\ task' = [task EXCEPT ![i] = Caught(@, "translate")]
    /\ pbar' = advance(pbar)
    /\ UNCHANGED <<config, doc, paragraphs, shared, main, cancelled, tracker, pvars>>

\* the steps of the thread that runs translate()
MainStep == Translate_Begin \/ ProcessPage \/ Submit \/ Join

\* the steps of the workers
WorkerStep == \E i \in 1..Len(task) : StartTask(i)

\* the steps the translator ends a call with
TranslatorStep == \E i \in 1..Len(task) : TranslatorReturns(i) \/ TranslatorRaises(i)

Next ==
    \/ Translate_Begin
    \/ ProcessPage
    \/ Submit
    \/ Join
    \/ Cancel
    \/ \E i \in 1..Len(doc.paras) : StartTask(i)
    \/ \E i \in 1..Len(doc.paras) : TranslatorReturns(i)
    \/ \E i \in 1..Len(doc.paras) : TranslatorRaises(i)

Spec == Init /\ [][Next]_vars

\* The thread of translate() runs, a free worker takes a waiting task, and
\* a call of the translator ends (it returns or raises).
FairSpec ==
    /\ Spec
    /\ WF_vars(MainStep)
    /\ WF_vars(WorkerStep)
    /\ WF_vars(TranslatorStep)

\* task i has returned
TaskDone(i) == i \in 1..Len(task) /\ task[i].state = "done"

\* paragraph i is as it was before the run
Untouched(i) ==
    /\ paragraphs[i].unicode = doc.paras[i].unicode
    /\ paragraphs[i].comps = doc.paras[i].comps

\* the latest attempt tracker of paragraph i is marked as a full match
FullMatchMarked(i) ==
    /\ tracker[i].llm_translate_trackers # <<>>
    /\ tracker[i].llm_translate_trackers[Len(tracker[i].llm_translate_trackers)]
           .placeholder_full_match

\* C2: a paragraph whose task caught an exception of the Translate,
\* Normalize or Post step has the flattened text and the composition list
\* it had before the task started.
C2_FailureLeavesParagraph ==
    \A i \in 1..Len(task) :
        (TaskDone(i) /\ task[i].outcome = "failed"
                     /\ task[i].failed_in \in {"translate", "post"})
            => Untouched(i)

\* translate() has returned and every paragraph's task has been executed
RunCompleted ==
    /\ main.pc = "done"
    /\ Len(task) = Len(doc.paras)
    /\ \A i \in 1..Len(task) : TaskDone(i) /\ task[i].outcome # "cancelled"

\* C3: translate() fails only when cancellation was signalled, and unless
\* cancellation is signalled the run eventually completes with every
\* paragraph task executed, however many of them fail.
C3_RunCompletes ==
    /\ [](main.pc = "cancelled" => cancelled)
    /\ <>(cancelled \/ RunCompleted)

\* a run completed without cancellation in which one task failed on the
\* translator or the reparser and a sibling was translated
C3_Witness ==
    /\ RunCompleted
    /\ ~cancelled
    /\ \E i, j \in 1..Len(task) :
          /\ task[i].outcome = "failed"
          /\ task[i].failed_in \in {"translate", "post"}
          /\ task[j].outcome = "translated"

\* the translator's answer for task i, as returned, is the input text
EchoedRaw(i) ==
    /\ TaskDone(i)
    /\ task[i].returned # NoValue
    /\ task[i].returned.text = task[i].translate_input.unicode

\* the translator's answer for task i, once normalized, is the input text
EchoedNormalized(i) ==
    /\ TaskDone(i)
    /\ task[i].returned # NoValue
    /\ Normalize(task[i].returned.text) = task[i].translate_input.unicode

\* the paragraph of task i is left alone and its attempt marked
LeftAsFullMatch(i) ==
    /\ FullMatchMarked(i)
    /\ paragraphs[i] = doc.paras[i]
    /\ ~task[i].reparsed

\* C8 as stated: a translator answer identical to the input text leaves the
\* paragraph unmodified, marks the attempt a full match and does not run
\* the reparser.
C8_Original == \A i \in 1..Len(task) : EchoedRaw(i) => LeftAsFullMatch(i)

\* C8: a translator answer that is identical to the input text after the
\* Normalize step leaves the paragraph unmodified, marks the attempt a
\* full match and does not run the reparser.
C8_IdenticalAfterNormalize ==
    \A i \in 1..Len(task) : EchoedNormalized(i) => LeftAsFullMatch(i)

\* the translator echoed the input of a paragraph with a placeholder
C8_Witness ==
    \E i \in 1..Len(task) :
        /\ EchoedNormalized(i)
        /\ task[i].translate_input.placeholders # <<>>
        /\ task[i].outcome = "unchanged"

\* C10: every task is submitted with priority 1048576 minus its token
\* count, the count being 0 when the tokenizer fails, and a task leaves
\* the queue only when no task waiting with it has a smaller token count.
C10_ShorterFirst ==
    [][/\ \A i \in 1..Len(task') :
             /\ task'[i].paragraph_token_count =
                    (IF config.tokenizer_ok THEN Len(doc.paras[i].unicode) ELSE 0)
             /\ task'[i].priority = 1048576 - task'[i].paragraph_token_count
       /\ \A i, j \in 1..Len(task) :
             (/\ task[i].state = "queued"
              /\ task'[i].state # "queued"
              /\ task[j].state = "queued")
                 => task[i].paragraph_token_count <= task[j].paragraph_token_count]_vars

\* a task submitted later has left the queue while a longer one submitted
\* before it still waits
C10_Witness ==
    \E i, j \in 1..Len(task) :
        /\ j < i
        /\ task[j].state = "queued"
        /\ task[i].state # "queued"
        /\ task[i].paragraph_token_count < task[j].paragraph_token_count

\* the outcomes of a task that passed its cancellation check
Outcomes == {"skipped", "failed", "unchanged", "translated"}

\* C11: once cancellation is signalled no page begins submission, a task
\* that starts ends at its check without calling the translator and
\* without touching its paragraph or tracker, and a task that is in a
\* translation call stays in it until it ends as it would have; every
\* translation call in flight does end.
C11_Cancellation ==
    /\ [][cancelled =>
             /\ ~(main.pc = "page" /\ main'.pc = "submit")
             /\ \A i \in 1..Len(task) :
                   /\ (task[i].state = "queued" /\ task'[i].state # "queued") =>
                         /\ task'[i].state = "done"
                         /\ task'[i].outcome = "cancelled"
                         /\ task'[i].returned = NoValue
                         /\ paragraphs'[i] = paragraphs[i]
                         /\ tracker'[i] = tracker[i]
                   /\ (task[i].state = "translating" /\ task'[i] # task[i]) =>
                         /\ task'[i].state = "done"
                         /\ task'[i].outcome \in Outcomes]_vars
    /\ <>[](\A i \in 1..Len(task) : task[i].state # "translating")

\* cancellation has been signalled, a task that started after it was
\* cancelled at its check, and another task is still in the translation
\* call it was in when cancellation was signalled
C11_Witness ==
    /\ cancelled
    /\ \E i, j \in 1..Len(task) :
          /\ task[i].outcome = "cancelled"
          /\ paragraphs[i] = doc.paras[i]
          /\ task[j].state = "translating"

\* the paragraphs labelled "title" of the document as it was given, up to
\* paragraph i
TitlesUpTo(i) == {k \in 1..i : doc.paras[k].layout_label = "title"}

\* the recent title of paragraph i by submission order alone: the last
\* title up to it, else what the run started with (the recent title of an
\* earlier part, or the document's first title, or none)
RecentTitleBySubmission(i) ==
    IF TitlesUpTo(i) # {}
    THEN Snapshot(doc.paras[CHOOSE k \in TitlesUpTo(i) : \A l \in TitlesUpTo(i) : l <= k])
    ELSE IF shared.first_paragraph = EarlierTitle THEN EarlierRecentTitle
    ELSE IF find_title_paragraph(doc.paras) = NoValue THEN NoValue
    ELSE Snapshot(find_title_paragraph(doc.paras))

\* C12: the recent title of every submitted task is the snapshot, taken
\* of the untranslated paragraph, that submission order alone determines,
\* and only a step of the submitting thread changes the shared titles.
C12_TitleSnapshot ==
    /\ [](\A i \in 1..Len(task) :
             task[i].local_title_paragraph = RecentTitleBySubmission(i))
    /\ [][shared' # shared =>
             /\ main' # main
             /\ paragraphs' = paragraphs
             /\ \A i \in 1..Len(task) : task'[i] = task[i]]_vars

\* a task submitted after an earlier title paragraph had already been
\* translated carries the title's text from before the translation
C12_Witness ==
    \E i, j \in 1..Len(task) :
        /\ i < j
        /\ doc.paras[i].layout_label = "title"
        /\ task[i].outcome = "translated"
        /\ paragraphs[i].unicode # doc.paras[i].unicode
        /\ task[j].local_title_paragraph = Snapshot(doc.paras[i])
        /\ task[j].local_title_paragraph.unicode # paragraphs[i].unicode

\* the input the builder makes of paragraph i as it was given
InputOf(i) ==
    get_translate_input(StdProvider, doc.paras[i],
                        FontMapFor(doc.paras[i], PageFontMap, XobjFontMap),
                        config.disable_rich_text_translate
                            \/ ~config.support_llm_translate).value

\* paragraph i is one the Pre step passes through: vertical, or without
\* compositions, or a lone formula, pre-translated text or unknown
\* composition, or with an unknown composition the builder reaches, or
\* with an input text below the minimum length
PassedThrough(i) ==
    LET paragraph == doc.paras[i] IN
    \/ paragraph.vertical
    \/ paragraph.comps = <<>>
    \/ /\ Len(paragraph.comps) = 1
       /\ paragraph.comps[1].kind \in {"formula", "ssuc", "unknown"}
    \/ InputOf(i).type = "none"
    \/ /\ InputOf(i).type = "input"
       /\ Len(InputOf(i).unicode) < config.min_text_length

\* C13: the task of a vertical paragraph, of one the builder makes no
\* input of, or of one whose input text is below the minimum length never
\* calls the translator, appends no attempt tracker and leaves the
\* paragraph's text and compositions as they were.
C13_PassThrough ==
    \A i \in 1..Len(task) :
        PassedThrough(i) =>
            /\ task[i].state # "translating"
            /\ task[i].returned = NoValue
            /\ tracker[i].llm_translate_trackers = <<>>
            /\ Untouched(i)
            /\ TaskDone(i) => task[i].outcome \in {"skipped", "cancelled"}

\* the tasks of an empty paragraph, a lone formula, a lone pre-translated
\* text and a paragraph with an unknown composition have all run and were
\* skipped
C13_Witness ==
    /\ Len(task) = 4
    /\ \A i \in 1..4 : PassedThrough(i) /\ TaskDone(i) /\ task[i].outcome = "skipped"
    /\ doc.paras[2].comps[1].kind = "formula"
    /\ pbar.n = 4

\* C16: every paragraph has at most one task, a task calls the translator
\* at most once, through llm_translate when the engine supports it and
\* through translate otherwise, its paragraph has at most one attempt
\* tracker, and a task that has returned, failed or not, is never run again.
C16_SinglePass ==
    /\ [](/\ Len(task) <= Len(doc.paras)
          /\ \A i \in 1..Len(task) :
                /\ Len(task[i].calls) <= 1
                /\ \A k \in 1..Len(task[i].calls) :
                      task[i].calls[k] = IF config.support_llm_translate
                                         THEN "llm_translate" ELSE "translate"
                /\ Len(tracker[i].llm_translate_trackers) <= 1)
    /\ [][\A i \in 1..Len(task) :
             /\ TaskDone(i) => task'[i] = task[i] /\ paragraphs'[i] = paragraphs[i]
             /\ Len(task[i].calls) <= Len(task'[i].calls)]_vars

\* the run has completed: a task failed on its one translator call, its
\* paragraph has one attempt tracker and is as it was
C16_Witness ==
    /\ RunCompleted
    /\ \E i \in 1..Len(task) :
          /\ task[i].outcome = "failed"
          /\ task[i].failed_in = "translate"
          /\ Len(task[i].calls) = 1
          /\ Len(tracker[i].llm_translate_trackers) = 1
          /\ Untouched(i)

\* the tasks that passed their check for cancellation and have returned
PastStartCheck == {i \in 1..Len(task) : TaskDone(i) /\ task[i].outcome \in Outcomes}

\* the tasks that were cancelled at their start
CancelledAtStart == {i \in 1..Len(task) : TaskDone(i) /\ task[i].outcome = "cancelled"}

\* C18: the progress bar is advanced once for each task that passed its
\* check for cancellation, when the task returns, whatever its outcome, and
\* never for a task cancelled at its start; a run that was not cancelled
\* ends with as many advances as the paragraphs announced.
C18_AdvanceOncePerTask ==
    /\ [](/\ pbar = NoValue => task = <<>>
          /\ pbar # NoValue =>
                /\ pbar.n = Cardinality(PastStartCheck)
                /\ pbar.total = Len(doc.paras)
                /\ (main.pc = "done" /\ ~cancelled) => pbar.n = pbar.total)
    /\ [][pbar # NoValue =>
             /\ pbar'.total = pbar.total
             /\ pbar'.n # pbar.n =>
                   /\ pbar'.n = pbar.n + 1
                   /\ \E i \in 1..Len(task) :
                         /\ ~TaskDone(i)
                         /\ PastStartCheck' = PastStartCheck \cup {i}
             /\ CancelledAtStart' # CancelledAtStart => pbar' = pbar]_vars

\* every paragraph was submitted and every task has returned: one was
\* cancelled at its start, one failed, one was skipped or translated, and
\* the bar stands at the number of those not cancelled
C18_Witness ==
    /\ Len(task) = Len(doc.paras)
    /\ \A i \in 1..Len(task) : TaskDone(i)
    /\ CancelledAtStart # {}
    /\ \E i, j \in PastStartCheck :
          task[i].outcome = "failed" /\ task[j].outcome # "failed"
    /\ pbar.n = Len(task) - Cardinality(CancelledAtStart)
    /\ pbar.n < pbar.total

============================================================================
